---- MODULE Spec2Model ----
(***************************************************************************)
(* Model of botany-reconcile.py: the per-user reconciliation of the three  *)
(* stores (primary *_plant.dat file, JSON mirror, garden table) and the    *)
(* audit that compares the page view with the live plant.                  *)
(*                                                                         *)
(* Python values:  None is <<>>, Some(v) is <<v>>; a str is a tuple of     *)
(* one-character strings; an exception is the name of its class.           *)
(***************************************************************************)
EXTENDS Integers, Sequences, FiniteSets, TLC

\* ------------------------------------------------------------- bounds
\* The most calls the environment fails in one run (a load of a sound file,
\* a write, a copy, a query).
MaxFaults == 1

\* ------------------------------------------------- program constants
SecondsPerHour == 3600
DeadAfterHours == 72
WaterIntervalHours == 18

\* ------------------------------------------------------ Python values
None == <<>>
Some(v) == <<v>>
IsNone(o) == o = <<>>
Val(o) == o[1]

\* ------------------------------------------------------------- names
\* Characters in code-point order (the part of ASCII the names use).
Alphabet ==
  << "\n", " ", "-", ".", "/",
     "0", "1", "2", "3", "4", "5", "6", "7", "8", "9",
     "A", "B", "C", "D", "E", "F", "G", "H", "I", "J", "K", "L", "M",
     "N", "O", "P", "Q", "R", "S", "T", "U", "V", "W", "X", "Y", "Z",
     "_",
     "a", "b", "c", "d", "e", "f", "g", "h", "i", "j", "k", "l", "m",
     "n", "o", "p", "q", "r", "s", "t", "u", "v", "w", "x", "y", "z",
     "~" >>

Ord(c) == CHOOSE k \in 1..Len(Alphabet) : Alphabet[k] = c

\* The character class [A-Za-z0-9._-].
SafeChars ==
  { Alphabet[k] : k \in 1..Len(Alphabet) } \ { "\n", " ", "/", "~" }

\* SAFE_USER_RE = ^[A-Za-z0-9._-]+$ used with re.match: "$" also matches
\* just before a newline that ends the string.
is_safe_username(u) ==
  LET body == IF Len(u) > 0 /\ u[Len(u)] = "\n" THEN SubSeq(u, 1, Len(u) - 1)
              ELSE u
  IN  Len(body) > 0 /\ \A k \in 1..Len(body) : body[k] \in SafeChars

\* The claim's character class: the whole name is one or more safe characters.
MatchesSafeClass(u) ==
  Len(u) > 0 /\ \A k \in 1..Len(u) : u[k] \in SafeChars

\* str comparison: lexicographic by code point.
RECURSIVE StrLess(_, _)
StrLess(a, b) ==
  IF Len(a) = 0 THEN Len(b) > 0
  ELSE IF Len(b) = 0 THEN FALSE
  ELSE IF Ord(a[1]) # Ord(b[1]) THEN Ord(a[1]) < Ord(b[1])
  ELSE StrLess(Tail(a), Tail(b))

\* sorted(xs) for a list or a set of names (a stable sort of equal names
\* leaves them adjacent, which is all the callers observe).
RECURSIVE SortedSet(_)
SortedSet(S) ==
  IF S = {} THEN <<>>
  ELSE LET m == CHOOSE x \in S : \A y \in S \ {x} : StrLess(x, y)
       IN  <<m>> \o SortedSet(S \ {m})

Range(s) == { s[k] : k \in 1..Len(s) }

RECURSIVE Copies(_, _)
Copies(x, n) == IF n = 0 THEN <<>> ELSE <<x>> \o Copies(x, n - 1)

RECURSIVE SortedList(_)
SortedList(xs) ==
  IF Len(xs) = 0 THEN <<>>
  ELSE LET S == Range(xs)
           m == CHOOSE x \in S : \A y \in S \ {x} : StrLess(x, y)
           n == Cardinality({ k \in 1..Len(xs) : xs[k] = m })
       IN  Copies(m, n) \o SortedList(SelectSeq(xs, LAMBDA x : x # m))

alice == <<"a">>
bob == <<"b">>
eve == <<"e", " ">>
Names == { alice, bob, eve }

\* ------------------------------------------------------------- state
VARIABLES
  args,      \* the parsed options: dry_run, reinit_corrupt, audit, user, ...
  now,       \* time.time(), in seconds
  dat,       \* dat[u][p]: the file <home>/<u>/.botany/<p>_plant.dat
  json,      \* json[u]: the file <home>/<u>/.botany/<u>_plant_data.json
  garden,    \* the shared SQLite file: exists, rows of table garden by rowid
  backups,   \* the <path>.corrupt-<ts> files
  pc,        \* main's position: start, loop, audit, done, aborted
  users,     \* main's list users
  order,     \* sorted(users), the list the loop and the audit walk
  i,         \* position of the reconcile loop in sorted(users)
  fixed,     \* main's counter fixed
  errors,    \* main's counter errors
  summary,   \* the "Done. processed=..." line was logged
  rows,      \* the audit rows built so far
  exit,      \* the process exit status
  faults,    \* the calls the environment has failed so far
  iter,      \* history: what the latest loop iteration did
  report,    \* history: report[u], the log line of u's iteration
  accessed,  \* history: the names some store was read, loaded or written for
  world0,    \* history: the stores as they were when the run began
  io         \* one mirror write and one concurrent read, system call by system call

vars == << args, now, dat, json, garden, backups, pc, users, order, i, fixed, errors,
           summary, rows, exit, faults, iter, report, accessed, world0, io >>

\* The four stores, and the calls made on them so far in one iteration.
World == [ dat |-> dat, json |-> json, garden |-> garden, backups |-> backups,
           ops |-> <<>> ]
Stores(W) == [ dat |-> W.dat, json |-> W.json, garden |-> W.garden,
               backups |-> W.backups ]
Did(W, op) == [W EXCEPT !.ops = Append(@, op)]

\* Mutant: the except tuple without ValueError.
ClassifiedNoValueError ==
  { "EOFError", "FileNotFoundError", "ModuleNotFoundError", "ImportError" }

\* Exception classes. Classified is main's except tuple (line 344).
Classified ==
  { "EOFError", "FileNotFoundError", "ValueError", "ModuleNotFoundError",
    "ImportError" }

\* ------------------------------------------------------------ files
NoFile == [kind |-> "none"]
\* A file pickle cannot load (raises: what unpickling it raises), or a pickled
\* plant (due: the check the plant's own rules apply when it is next loaded).
CorruptFile(e, m) == [kind |-> "corrupt", raises |-> e, mtime |-> m]
PlantFile(pl, due, m) == [kind |-> "plant", plant |-> pl, due |-> due, mtime |-> m]
MkPlant(d, w, t) == [dead |-> d, watered_timestamp |-> w, ticks |-> t]

NoJson == [kind |-> "absent"]
BadJson == [kind |-> "malformed"]
JsonFile(d) == [kind |-> "dict", data |-> d]
EmptyDict == <<>>

\* dict.get(key, default)
get(d, key, default) == IF key \in DOMAIN d THEN d[key] ELSE default

\* os.path.exists / glob match of a *_plant.dat file
exists(W, u, p) == W.dat[u][p].kind # "none"

\* read_user_json: None when the file is missing, unreadable or malformed
read_user_json(W, u) ==
  IF W.json[u].kind # "dict" THEN None ELSE Some(W.json[u].data)

\* Mutant: write_user_json without the dry-run test.
write_user_json_wet(W, u, data, ioFail) ==
  IF ioFail THEN [W |-> W, ret |-> FALSE, exc |-> Some("PermissionError")]
  ELSE [W |-> Did([W EXCEPT !.json[u] = JsonFile(data)], "write_user_json"),
        ret |-> TRUE, exc |-> None]

\* Mutant: write_user_json keeping only the is_dead field.
write_user_json_flag_only(W, u, data, ioFail) ==
  IF args.dry_run THEN [W |-> W, ret |-> FALSE, exc |-> None]
  ELSE IF ioFail THEN [W |-> W, ret |-> FALSE, exc |-> Some("PermissionError")]
  ELSE [W |-> Did([W EXCEPT !.json[u] = JsonFile([is_dead |-> data.is_dead])],
                  "write_user_json"),
        ret |-> TRUE, exc |-> None]

\* write_user_json: returns the world, whether it wrote, and the exception. ioFail: makedirs,
\* open, dump or replace raised; the target is then as it was.
write_user_json(W, u, data, ioFail) ==
  IF args.dry_run THEN [W |-> W, ret |-> FALSE, exc |-> None]
  ELSE IF ioFail THEN [W |-> W, ret |-> FALSE, exc |-> Some("PermissionError")]
  ELSE [W |-> Did([W EXCEPT !.json[u] = JsonFile(data)], "write_user_json"),
        ret |-> TRUE, exc |-> None]

\* A row of table garden (the columns the program reads or writes).
Row(u, d) == [owner |-> u, is_dead |-> d]

\* UPDATE garden SET is_dead = ? WHERE owner = ?
UpdateIsDead(rs, u, is_dead) ==
  [k \in 1..Len(rs) |->
     IF rs[k].owner = u THEN [rs[k] EXCEPT !.is_dead = is_dead] ELSE rs[k]]

\* Mutant: the UPDATE without its WHERE clause.
update_garden_db_is_dead_all(W, u, is_dead, dbFail) ==
  IF args.dry_run THEN W
  ELSE IF ~W.garden.exists THEN W
  ELSE IF dbFail THEN W
  ELSE Did([W EXCEPT !.garden.rows =
              [k \in 1..Len(@) |-> [@[k] EXCEPT !.is_dead = is_dead]]],
           "update_garden_db_is_dead")

\* update_garden_db_is_dead: dbFail is an sqlite3 error, swallowed.
update_garden_db_is_dead(W, u, is_dead, dbFail) ==
  IF args.dry_run THEN W
  ELSE IF ~W.garden.exists THEN W
  ELSE IF dbFail THEN W
  ELSE Did([W EXCEPT !.garden.rows = UpdateIsDead(@, u, is_dead)],
           "update_garden_db_is_dead")

\* Mutant: backup_file that copies nothing.
backup_file_skips(W, u, p, ioFail) == [W |-> W, ret |-> None, exc |-> None]

\* backup_file: copy2 keeps content and metadata; ioFail: copy2 raised.
BackupOf(W, u, p) == [user |-> u, prefix |-> p, ts |-> now, file |-> W.dat[u][p]]
SamePath(b, c) == b.user = c.user /\ b.prefix = c.prefix /\ b.ts = c.ts
backup_file(W, u, p, ioFail) ==
  IF ~exists(W, u, p) THEN [W |-> W, ret |-> None, exc |-> None]
  ELSE IF ioFail THEN [W |-> W, ret |-> None, exc |-> Some("PermissionError")]
  ELSE LET b == BackupOf(W, u, p)
       IN  [W |-> Did([W EXCEPT !.backups =
                          { c \in @ : ~SamePath(b, c) } \cup {b}], "backup_file"),
            ret |-> Some(b), exc |-> None]

\* (Mutant find_user_dat_path_newest, below: the newest candidate even when
\* the canonical file is among them.)
\* find_user_dat_path: the results the glob order allows (a set, since
\* candidates of equal mtime sort in glob order).
Candidates(W, u) == { p \in Names : exists(W, u, p) }
find_user_dat_path_newest(W, u) ==
  LET candidates == Candidates(W, u)
  IN  IF candidates = {} THEN { None }
      ELSE { Some(p) : p \in { q \in candidates :
                 \A r \in candidates : W.dat[u][r].mtime <= W.dat[u][q].mtime } }
find_user_dat_path(W, u) ==
  LET candidates == Candidates(W, u)
  IN  IF candidates = {} THEN { None }
      ELSE IF u \in candidates THEN { Some(u) }
      ELSE { Some(p) : p \in { q \in candidates :
                 \A r \in candidates : W.dat[u][r].mtime <= W.dat[u][q].mtime } }

\* make_dm_for_user: the savefile is dat_path, or the canonical name.
savefile(u, dat_path) == IF IsNone(dat_path) THEN u ELSE Val(dat_path)

\* ------------------------------------- the botany module (DataManager, Plant)
\* Plant(path): a fresh plant, not dead.
Plant == MkPlant(0, now, 0)

\* load_plant: unpickles the file and runs the plant's own checks, which may
\* change fields against what is on disk.
load_plant(file) ==
  LET pl == file.plant
  IN  CASE file.due = "die" -> [pl EXCEPT !.dead = 1]
        [] file.due = "grow" -> [pl EXCEPT !.ticks = @ + 1]
        [] OTHER -> pl

\* What load_plant may raise on a file (None: it returns). A sound file
\* fails to load only by a fault of the environment.
LoadRaises(file, mayFail) ==
  IF file.kind = "corrupt" THEN { Some(file.raises) }
  ELSE { None } \cup (IF mayFail THEN { Some("ImportError"), Some("PermissionError") }
                      ELSE {})

\* save_plant: pickles the plant to the savefile.
save_plant(W, u, p, pl) ==
  Did([W EXCEPT !.dat[u][p] = PlantFile(pl, "none", now)], "save_plant")

\* data_write_json: the mirror document derived from the plant.
MirrorOf(pl) ==
  [ is_dead |-> Some(pl.dead), last_watered |-> Some(pl.watered_timestamp),
    score |-> Some(pl.ticks) ]
data_write_json(W, u, pl) ==
  Did([W EXCEPT !.json[u] = JsonFile(MirrorOf(pl))], "data_write_json")

\* update_garden_db: insert or replace the owner's row; the row written is
\* then the owner's latest.
LatestIndex(rs, u) ==
  LET K == { k \in 1..Len(rs) : rs[k].owner = u }
  IN  IF K = {} THEN 0 ELSE CHOOSE k \in K : \A m \in K : m <= k
DropIndex(rs, k) ==
  IF k = 0 THEN rs ELSE SubSeq(rs, 1, k - 1) \o SubSeq(rs, k + 1, Len(rs))
update_garden_db(W, u, pl) ==
  Did([W EXCEPT !.garden =
         [exists |-> TRUE,
          rows |-> Append(DropIndex(@.rows, LatestIndex(@.rows, u)),
                          Row(u, pl.dead))]],
      "update_garden_db")

\* ------------------------------------------------------- reconciliation
\* Results of a call: the world after it, the exception it raised (or None)
\* and what it returned.
Return(W, v) == [W |-> W, exc |-> None, ret |-> v]
Raise(W, e) == [W |-> W, exc |-> Some(e), ret |-> None]

\* The inputs of one loop iteration, beyond the stores:
\*   path, rpath  what find_user_dat_path returns (normal, reinit)
\*   load         what load_plant raises, if it does
\*   at, cls      the call of the normal path that raises, and what
\*   rat          the call of the recovery path that fails
NoFault == "-"
NormalFaults == { "save_plant", "data_write_json", "update_garden_db" }
FallbackFaults == { "write_user_json", "update_garden_db_is_dead" }
ReinitFaults ==
  { "backup_file", "Plant", "save_plant", "data_write_json", "update_garden_db" }

\* Mutant: the persist sequence without data_write_json.
PersistNoMirror(W, u, p, pl, at, cls) ==
  IF at = "save_plant" THEN Raise(W, cls)
  ELSE LET W1 == save_plant(W, u, p, pl)
       IN  IF at = "update_garden_db" THEN Raise(W1, cls)
           ELSE Return(update_garden_db(W1, u, pl), None)

\* save_plant; data_write_json; update_garden_db (lines 153-155, 190-192):
\* the first call that raises ends the sequence.
Persist(W, u, p, pl, at, cls) ==
  IF at = "save_plant" THEN Raise(W, cls)
  ELSE LET W1 == save_plant(W, u, p, pl)
       IN  IF at = "data_write_json" THEN Raise(W1, cls)
           ELSE LET W2 == data_write_json(W1, u, pl)
                IN  IF at = "update_garden_db" THEN Raise(W2, cls)
                    ELSE Return(update_garden_db(W2, u, pl), None)

Snapshot(pl) == << pl.dead, pl.watered_timestamp, pl.ticks >>

\* Mutant: the normal path saving a plant one tick older than it loaded.
reconcile_normal_ticking(W, u, in) ==
  LET dat_path == in.path
      W0 == Did(W, "find_user_dat_path")
  IN  IF IsNone(dat_path) THEN Raise(W0, "FileNotFoundError")
      ELSE
        LET p == savefile(u, dat_path)
            W1 == Did(W0, "load_plant")
        IN  IF ~IsNone(in.load) THEN Raise(W1, Val(in.load))
            ELSE
              LET plant == load_plant(W.dat[u][p])
                  aged == [plant EXCEPT !.ticks = @ + 1]
                  R == IF ~args.dry_run THEN Persist(W1, u, p, aged, in.at, in.cls)
                       ELSE Return(W1, None)
              IN  IF ~IsNone(R.exc) THEN R
                  ELSE Return(R.W, [changed |-> FALSE, plant |-> plant])

reconcile_normal(W, u, in) ==
  LET dat_path == in.path
      W0 == Did(W, "find_user_dat_path")
  IN  IF IsNone(dat_path) THEN Raise(W0, "FileNotFoundError")
      ELSE
        LET p == savefile(u, dat_path)
            W1 == Did(W0, "load_plant")
        IN  IF ~IsNone(in.load) THEN Raise(W1, Val(in.load))
            ELSE
              LET plant == load_plant(W.dat[u][p])
                  before == Snapshot(plant)
                  R == IF ~args.dry_run THEN Persist(W1, u, p, plant, in.at, in.cls)
                       ELSE Return(W1, None)
                  after == Snapshot(plant)
                  changed == before # after
              IN  IF ~IsNone(R.exc) THEN R
                  ELSE Return(R.W, [changed |-> changed, plant |-> plant])

\* Mutant: the threshold test with >= for >.
PastThresholdOrAt(last) == now - last >= args.dead_after_hours * SecondsPerHour

\* hours_since = (time.time() - last) / 3600.0; hours_since > dead_after_hours
\* (lines 169-170), in whole seconds
PastThreshold(last) == now - last > args.dead_after_hours * SecondsPerHour

fallback_mark_dead(W, u, in) ==
  LET data == read_user_json(W, u)
      W0 == Did(W, "read_user_json")
  IN  IF IsNone(data) \/ Val(data) = EmptyDict THEN Return(W0, "no JSON; skipped")
      ELSE
        LET d == Val(data)
            lw == get(d, "last_watered", None)
            last == IF IsNone(lw) \/ Val(lw) = 0 THEN 0 ELSE Val(lw)
        IN  IF last <= 0 THEN Return(W0, "JSON missing last_watered; skipped")
            ELSE IF PastThreshold(last)
            THEN IF Val(get(d, "is_dead", Some(0))) # 1
                 THEN LET d1 == [k \in DOMAIN d \cup {"is_dead"} |->
                                   IF k = "is_dead" THEN Some(1) ELSE d[k]]
                          Wr == write_user_json(W0, u, d1, in.rat = "write_user_json")
                      IN  IF ~IsNone(Wr.exc) THEN Raise(Wr.W, Val(Wr.exc))
                          ELSE Return(update_garden_db_is_dead(Wr.W, u, 1,
                                        in.rat = "update_garden_db_is_dead"),
                                      "marked dead via JSON/DB")
                 ELSE Return(W0, "already dead in JSON")
            ELSE Return(W0, "still within threshold")

reinit_corrupt(W, u, in) ==
  LET dat_path == in.rpath
      W0 == Did(W, "find_user_dat_path")
      p == savefile(u, dat_path)
  IN  IF ~args.dry_run
      THEN LET B == IF ~IsNone(dat_path) /\ exists(W0, u, Val(dat_path))
                    THEN backup_file(W0, u, Val(dat_path), in.rat = "backup_file")
                    ELSE [W |-> W0, ret |-> None, exc |-> None]
           IN  IF ~IsNone(B.exc) THEN Raise(B.W, Val(B.exc))
               ELSE LET R == IF in.rat = "Plant" THEN Raise(B.W, "PermissionError")
                             ELSE Persist(B.W, u, p, Plant, in.rat, "PermissionError")
                    IN  IF ~IsNone(R.exc) THEN Return(R.W, "reinit failed")
                        ELSE Return(R.W, "reinitialized")
      ELSE Return(W0, "DRY-RUN would reinitialize and backup")

\* "reinitialized" in action or "marked dead" in action (line 351)
CountsAsFixed(action) ==
  action \in { "reinitialized", "marked dead via JSON/DB" }

\* ---------------------------------------------------------------- audit
\* Mutant: the owner's row of lowest rowid.
read_db_row_oldest(W, u, qFail) ==
  IF ~W.garden.exists THEN None
  ELSE IF qFail THEN None
  ELSE LET K == { k \in 1..Len(W.garden.rows) : W.garden.rows[k].owner = u }
       IN  IF K = {} THEN None
           ELSE Some(W.garden.rows[CHOOSE k \in K : \A n \in K : k <= n])

\* read_db_row: the owner's row of highest rowid; None when the file is
\* missing, the query fails (qFail) or the owner has no row.
read_db_row(W, u, qFail) ==
  IF ~W.garden.exists THEN None
  ELSE IF qFail THEN None
  ELSE LET k == LatestIndex(W.garden.rows, u)
       IN  IF k = 0 THEN None ELSE Some(W.garden.rows[k])

compute_page_view(W, u, qFail) ==
  LET page == [ source |-> "none", is_dead |-> None, alive |-> None,
                thirsty |-> None, last_watered |-> None ]
      js == read_user_json(W, u)
  IN  IF ~IsNone(js) /\ Val(js) # EmptyDict
      THEN LET is_dead == Val(get(Val(js), "is_dead", Some(0)))
               lw == get(Val(js), "last_watered", None)
               \* int(lw) if str(lw).isdigit() else None
               last_watered == IF ~IsNone(lw) /\ Val(lw) >= 0 THEN lw ELSE None
           IN  [ source |-> "json", is_dead |-> Some(is_dead),
                 alive |-> Some(is_dead = 0),
                 thirsty |-> Some(~IsNone(last_watered) /\
                     now - Val(last_watered) >= args.water_interval_hours * SecondsPerHour),
                 last_watered |-> last_watered ]
      ELSE LET db == read_db_row(W, u, qFail)
           IN  IF ~IsNone(db)
               THEN [ source |-> "db", is_dead |-> Some(Val(db).is_dead),
                      alive |-> Some(Val(db).is_dead = 0),
                      thirsty |-> None, last_watered |-> None ]
               ELSE page

\* Mutant: a live load that saves the plant it loaded.
load_plant_state_saving(W, u, in) ==
  LET out == [ ok |-> FALSE, dead |-> None, last_watered |-> None, error |-> None ]
      dat_path == in.path
      W0 == Did(W, "find_user_dat_path")
  IN  IF IsNone(dat_path)
      THEN Return(W0, [out EXCEPT !.error = Some("FileNotFoundError")])
      ELSE IF ~IsNone(in.load)
      THEN Return(Did(W0, "load_plant"), [out EXCEPT !.error = in.load])
      ELSE LET plant == load_plant(W.dat[u][savefile(u, dat_path)])
           IN  Return(save_plant(Did(W0, "load_plant"), u, savefile(u, dat_path), plant),
                      [ ok |-> TRUE, dead |-> Some(plant.dead),
                        last_watered |-> Some(plant.watered_timestamp),
                        error |-> None ])

\* load_plant_state: the plant as load_plant gives it now; nothing is
\* saved. Returns the world after the call with the dict out.
load_plant_state(W, u, in) ==
  LET out == [ ok |-> FALSE, dead |-> None, last_watered |-> None, error |-> None ]
      dat_path == in.path
      W0 == Did(W, "find_user_dat_path")
  IN  IF IsNone(dat_path)
      THEN Return(W0, [out EXCEPT !.error = Some("FileNotFoundError")])
      ELSE IF ~IsNone(in.load)
      THEN Return(Did(W0, "load_plant"), [out EXCEPT !.error = in.load])
      ELSE LET plant == load_plant(W.dat[u][savefile(u, dat_path)])
           IN  Return(Did(W0, "load_plant"),
                      [ ok |-> TRUE, dead |-> Some(plant.dead),
                        last_watered |-> Some(plant.watered_timestamp),
                        error |-> None ])

\* Mutant: a live view without a dead flag is compared as if it were dead.
audit_user_eager(W, u, in) ==
  LET page == compute_page_view(W, u, in.qFail)
      L == load_plant_state(W, u, in)
      plant == L.ret
      mismatch_alive ==
        IF ~IsNone(page.alive)
        THEN Some(~(Val(page.alive) = (plant.dead = Some(0))))
        ELSE None
  IN  Return(L.W,
        [ user |-> u, page_source |-> page.source, page_alive |-> page.alive,
          page_is_dead |-> page.is_dead, page_last_watered |-> page.last_watered,
          page_thirsty |-> page.thirsty, plant_ok |-> plant.ok,
          plant_dead |-> plant.dead, plant_last_watered |-> plant.last_watered,
          mismatch_alive |-> mismatch_alive, plant_error |-> plant.error ])

audit_user(W, u, in) ==
  LET page == compute_page_view(W, u, in.qFail)
      L == load_plant_state(W, u, in)
      plant == L.ret
      mismatch_alive ==
        IF ~IsNone(page.alive) /\ ~IsNone(plant.dead)
        THEN Some(~(Val(page.alive) = (Val(plant.dead) = 0)))
        ELSE None
  IN  Return(L.W,
        [ user |-> u, page_source |-> page.source, page_alive |-> page.alive,
          page_is_dead |-> page.is_dead, page_last_watered |-> page.last_watered,
          page_thirsty |-> page.thirsty, plant_ok |-> plant.ok,
          plant_dead |-> plant.dead, plant_last_watered |-> plant.last_watered,
          mismatch_alive |-> mismatch_alive, plant_error |-> plant.error ])

\* Mutant: a row whose mismatch is undetermined also counts.
exit_status_strict(rs) ==
  IF \E k \in 1..Len(rs) : rs[k].mismatch_alive # Some(FALSE) THEN 2 ELSE 0

\* lines 365-368: 2 when some row has a true mismatch_alive, else 0
exit_status(rs) ==
  IF \E k \in 1..Len(rs) : rs[k].mismatch_alive = Some(TRUE) THEN 2 ELSE 0

\* ----------------------------------------------------------------- main
\* list_users_with_plant: the one user asked for, else the sorted safe
\* names of the homes that hold some *_plant.dat.
list_users_with_plant(W, only_user) ==
  IF only_user # <<>> THEN << only_user >>
  ELSE SortedSet({ u \in Names : Candidates(W, u) # {} /\ is_safe_username(u) })

\* lines 321-324
UsersOf(W) ==
  LET us == list_users_with_plant(W, args.user)
  IN  IF args.user # <<>> /\ args.user \notin Range(us) /\ is_safe_username(args.user)
      THEN Append(us, args.user)
      ELSE us

\* lines 337-357: the body of the loop for a safe name, given what
\* reconcile_normal did (R). escapes: the exception that leaves main.
loop_body(R, u, rin) ==
  IF IsNone(R.exc)
  THEN [ W |-> R.W, branch |-> "normal", exc |-> None, action |-> None,
         changed |-> R.ret.changed, plant |-> Some(R.ret.plant),
         ops |-> R.W.ops, rops |-> <<>>, escapes |-> None ]
  ELSE IF Val(R.exc) \in Classified
  THEN LET W1 == [R.W EXCEPT !.ops = <<>>]
           A == IF args.reinit_corrupt THEN reinit_corrupt(W1, u, rin)
                ELSE fallback_mark_dead(W1, u, rin)
       IN  [ W |-> A.W,
             branch |-> IF args.reinit_corrupt THEN "reinit" ELSE "fallback",
             exc |-> R.exc, action |-> IF IsNone(A.exc) THEN Some(A.ret) ELSE None,
             changed |-> FALSE, plant |-> None,
             ops |-> R.W.ops, rops |-> A.W.ops, escapes |-> A.exc ]
  ELSE [ W |-> R.W, branch |-> "error", exc |-> R.exc, action |-> None,
         changed |-> FALSE, plant |-> None,
         ops |-> R.W.ops, rops |-> <<>>, escapes |-> None ]

\* -------------------------------------------------------- initial states
Now == 100 * SecondsPerHour
\* last_watered stamps: one second beyond the dead threshold, exactly at it,
\* and fresh.
LwOld == Now - DeadAfterHours * SecondsPerHour - 1
LwEdge == Now - DeadAfterHours * SecondsPerHour
LwRecent == Now - 1
FileTime == Now - 10

Doc(d, lw) == [ is_dead |-> Some(d), last_watered |-> lw, score |-> Some(5) ]

OnlyFile(p, f) == [q \in Names |-> IF q = p THEN f ELSE NoFile]
NoFiles == [q \in Names |-> NoFile]

\* alice: every kind of primary file and of mirror.
AliceDat ==
  { NoFiles,
    OnlyFile(alice, CorruptFile("EOFError", FileTime)),
    OnlyFile(alice, PlantFile(MkPlant(0, LwRecent, 0), "none", FileTime)),
    OnlyFile(alice, PlantFile(MkPlant(0, LwRecent, 0), "die", FileTime)),
    OnlyFile(alice, PlantFile(MkPlant(0, LwRecent, 0), "grow", FileTime)),
    OnlyFile(alice, PlantFile(MkPlant(1, LwRecent, 0), "none", FileTime)),
    OnlyFile(bob, PlantFile(MkPlant(0, LwRecent, 0), "none", FileTime)) }
AliceJson ==
  { NoJson, BadJson, JsonFile(EmptyDict),
    JsonFile(Doc(0, None)), JsonFile(Doc(0, Some(LwOld))),
    JsonFile(Doc(0, Some(LwEdge))), JsonFile(Doc(1, Some(LwOld))) }
\* bob: a second user whose stores the run also reconciles.
BobDat ==
  { OnlyFile(bob, CorruptFile("ValueError", FileTime)),
    OnlyFile(bob, PlantFile(MkPlant(0, LwRecent, 0), "none", FileTime)) }
BobJson == { JsonFile(Doc(0, Some(LwOld))) }
\* eve: a name outside the safe class, with a dead plant and a live mirror.
EveDat == { OnlyFile(eve, PlantFile(MkPlant(1, LwRecent, 0), "none", FileTime)) }
EveJson == { JsonFile(Doc(0, Some(LwRecent))) }

\* The table, when the file exists: bob's row, then alice's rows, oldest first.
AliceRows ==
  { <<>>, << Row(alice, 1) >>, << Row(alice, 0), Row(alice, 1) >>,
    << Row(alice, 1), Row(alice, 0) >> }
Gardens ==
  { [exists |-> FALSE, rows |-> <<>>] }
  \cup { [exists |-> TRUE, rows |-> << Row(bob, 0) >> \o rs] : rs \in AliceRows }

ArgSets ==
  [ dry_run : BOOLEAN, reinit_corrupt : BOOLEAN, audit : BOOLEAN,
    user : { <<>>, alice, eve },
    dead_after_hours : { DeadAfterHours },
    water_interval_hours : { WaterIntervalHours } ]

\* ------------------------------------- a mirror write, step by step
\* The directory entries of the mirror (target) and of its temporary file
\* (tmp) name inodes; an inode holds a document and how many of the Chunks
\* writes of json.dump have reached it. NoInode: the path does not exist.
Chunks == 2
NoInode == 0
Blank == [file |-> NoJson, n |-> 0]
IoInit(file) ==
  [ wpc |-> "start", rpc |-> "start",
    dir |-> [target |-> IF file = NoJson THEN NoInode ELSE 1, tmp |-> NoInode],
    inode |-> [k \in 1..2 |-> IF k = 1 /\ file # NoJson
                              THEN [file |-> file, n |-> Chunks] ELSE Blank],
    wfd |-> NoInode, rfd |-> NoInode, seen |-> None ]

NoIteration ==
  [ user |-> <<>>, branch |-> "-", exc |-> None, action |-> None,
    changed |-> FALSE, plant |-> None, ops |-> <<>>, rops |-> <<>>,
    escapes |-> None, fixed0 |-> 0, errors0 |-> 0, pre |-> Stores(World),
    mid |-> Stores(World), loaded |-> FALSE ]

\* The stores of a user the run cannot reach (another user was asked for)
\* start at one configuration each.
Reaches(u) == args.user = <<>> \/ args.user = u
First(S) == CHOOSE x \in S : TRUE
Init ==
  /\ args \in ArgSets
  /\ now = Now
  /\ \E a \in (IF Reaches(alice) THEN AliceDat ELSE { First(AliceDat) }),
        b \in (IF Reaches(bob) THEN BobDat ELSE { First(BobDat) }), e \in EveDat :
       dat = [u \in Names |-> IF u = alice THEN a ELSE IF u = bob THEN b ELSE e]
  /\ \E a \in (IF Reaches(alice) THEN AliceJson ELSE { First(AliceJson) }),
        b \in BobJson, e \in EveJson :
       json = [u \in Names |-> IF u = alice THEN a ELSE IF u = bob THEN b ELSE e]
  /\ garden \in Gardens
  /\ backups = {}
  /\ pc = "start"
  /\ users = <<>>
  /\ order = <<>>
  /\ i = 1
  /\ fixed = 0
  /\ errors = 0
  /\ summary = FALSE
  /\ rows = <<>>
  /\ exit = None
  /\ faults = 0
  /\ iter = NoIteration
  /\ report = [u \in Names |-> <<>>]
  /\ accessed = {}
  /\ world0 = Stores(World)
  /\ io = IoInit(json[alice])

\* --------------------------------------------------------------- actions
Commit(W) ==
  /\ dat' = W.dat
  /\ json' = W.json
  /\ garden' = W.garden
  /\ backups' = W.backups

\* What the environment may do to the calls of one iteration: each record
\* also carries n, the number of calls it fails.
FileAt(W, u, path) == IF IsNone(path) THEN NoFile ELSE W.dat[u][Val(path)]
MayFail == faults < MaxFaults
NormalIn(W, u) ==
  UNION { { [path |-> p, load |-> l, at |-> NoFault, cls |-> "-",
             n |-> IF FileAt(W, u, p).kind = "plant" /\ ~IsNone(l) THEN 1 ELSE 0] :
              l \in (IF IsNone(p) THEN {None}
                     ELSE LoadRaises(FileAt(W, u, p), MayFail)) }
          \cup { [path |-> p, load |-> None, at |-> a, cls |-> k, n |-> 1] :
                   a \in (IF MayFail /\ ~args.dry_run /\ FileAt(W, u, p).kind = "plant"
                          THEN NormalFaults ELSE {}),
                   k \in { "ValueError", "PermissionError" } }
          : p \in find_user_dat_path(W, u) }
\* rpath is drawn when reinit_corrupt is reached, rat among the calls the
\* recovery reaches, when the budget allows.
Reached(R, u, p) ==
  IF args.reinit_corrupt
  THEN ReinitFaults \ (IF exists(R.W, u, savefile(u, p)) THEN {} ELSE {"backup_file"})
  ELSE LET A == fallback_mark_dead(R.W, u, [rat |-> NoFault])
       IN  IF A.ret = "marked dead via JSON/DB"
           THEN FallbackFaults \ (IF R.W.garden.exists THEN {}
                                  ELSE {"update_garden_db_is_dead"})
           ELSE {}
RecoverIn(R, u, n) ==
  IF IsNone(R.exc) \/ Val(R.exc) \notin Classified
  THEN { [rpath |-> None, rat |-> NoFault, n |-> 0] }
  ELSE UNION {
         { [rpath |-> p, rat |-> a, n |-> IF a = NoFault THEN 0 ELSE 1] :
             a \in {NoFault} \cup
                   (IF faults + n >= MaxFaults \/ args.dry_run THEN {}
                    ELSE Reached(R, u, p)) }
         : p \in (IF args.reinit_corrupt THEN find_user_dat_path(R.W, u)
                  ELSE {None}) }
\* qFail is drawn when compute_page_view reaches the query.
Queries(W, u) ==
  W.garden.exists /\ (IsNone(read_user_json(W, u)) \/ Val(read_user_json(W, u)) = EmptyDict)
AuditIn(W, u) ==
  UNION { { [path |-> p, load |-> l, qFail |-> FALSE,
             n |-> IF FileAt(W, u, p).kind = "plant" /\ ~IsNone(l) THEN 1 ELSE 0] :
              l \in (IF IsNone(p) THEN {None}
                     ELSE LoadRaises(FileAt(W, u, p), MayFail)) }
          \cup { [path |-> p, load |-> l, qFail |-> TRUE, n |-> 1] :
                   l \in (IF ~MayFail \/ ~Queries(W, u) THEN {}
                          ELSE IF IsNone(p) THEN {None}
                          ELSE LoadRaises(FileAt(W, u, p), FALSE)) }
          : p \in find_user_dat_path(W, u) }

\* lines 319-330
Start ==
  /\ pc = "start"
  /\ users' = UsersOf(World)
  /\ order' = SortedList(users')
  /\ IF users' = <<>>
     THEN pc' = "done" /\ exit' = Some(0)
     ELSE pc' = "loop" /\ exit' = exit
  /\ UNCHANGED << args, now, dat, json, garden, backups, i, fixed, errors,
                  summary, rows, faults, iter, report, accessed, world0, io >>

InLoop == pc = "loop" /\ i <= Len(order)
Current == order[i]

\* lines 334-336: an unsafe name is skipped
SkipUnsafe ==
  /\ InLoop
  /\ ~is_safe_username(Current)
  /\ i' = i + 1
  /\ iter' = [ NoIteration EXCEPT !.user = Current, !.branch = "skip",
                                  !.fixed0 = fixed, !.errors0 = errors ]
  /\ UNCHANGED << args, now, dat, json, garden, backups, pc, users, order, fixed,
                  errors, summary, rows, exit, faults, report, accessed, world0, io >>

\* "UPDATED", "DRY-RUN", "OK", the recovery's message, or "ERROR"
LogLine(B) ==
  CASE B.branch = "normal" ->
         IF ~B.changed THEN "OK" ELSE IF ~args.dry_run THEN "UPDATED" ELSE "DRY-RUN"
    [] B.branch = "error" -> "ERROR"
    [] OTHER -> Val(B.action)

\* lines 337-357: one iteration for a safe name
Iterate ==
  /\ InLoop
  /\ is_safe_username(Current)
  /\ \E in \in NormalIn(World, Current) :
       LET u == Current
           R == reconcile_normal(World, u, in)
       IN  \E rin \in RecoverIn(R, u, in.n) :
             LET B == loop_body(R, u, rin)
                 ok == IsNone(B.escapes)
             IN  /\ Commit(B.W)
                 /\ faults' = faults + in.n + rin.n
                 /\ fixed' = IF ok /\ (B.changed \/
                                       (~IsNone(B.action) /\ CountsAsFixed(Val(B.action))))
                             THEN fixed + 1 ELSE fixed
                 /\ errors' = IF B.branch = "error" THEN errors + 1 ELSE errors
                 /\ iter' = [ user |-> u, branch |-> B.branch, exc |-> B.exc,
                              action |-> B.action, changed |-> B.changed,
                              plant |-> B.plant, ops |-> B.ops, rops |-> B.rops,
                              escapes |-> B.escapes, fixed0 |-> fixed,
                              errors0 |-> errors, pre |-> Stores(World),
                              mid |-> Stores(R.W),
                              loaded |-> ~IsNone(in.path) /\ IsNone(in.load) ]
                 /\ report' = IF ok THEN [report EXCEPT ![u] = Append(@, LogLine(B))]
                              ELSE report
                 /\ accessed' = accessed \cup {u}
                 /\ i' = IF ok THEN i + 1 ELSE i
                 /\ pc' = IF ok THEN pc ELSE "aborted"
                 /\ exit' = IF ok THEN exit ELSE Some(1)
  /\ UNCHANGED << args, now, users, order, summary, rows, world0, io >>

\* line 359, and lines 361, 368 without --audit
Summary ==
  /\ pc = "loop"
  /\ i > Len(order)
  /\ summary' = TRUE
  /\ IF args.audit
     THEN pc' = "audit" /\ exit' = exit
     ELSE pc' = "done" /\ exit' = Some(0)
  /\ UNCHANGED << args, now, dat, json, garden, backups, users, order, i, fixed,
                  errors, rows, faults, iter, report, accessed, world0, io >>

\* line 362: one element of the list of audit rows
AuditUser ==
  /\ pc = "audit"
  /\ Len(rows) < Len(order)
  /\ LET u == order[Len(rows) + 1]
     IN  /\ \E in \in AuditIn(World, u) :
              LET A == audit_user(World, u, in)
              IN  /\ rows' = Append(rows, A.ret)
                  /\ Commit(A.W)
                  /\ faults' = faults + in.n
         /\ accessed' = accessed \cup {u}
  /\ UNCHANGED << args, now, pc, users, order, i, fixed, errors, summary, exit,
                  iter, report, world0, io >>

\* lines 363-368
Finish ==
  /\ pc = "audit"
  /\ Len(rows) = Len(order)
  /\ pc' = "done"
  /\ exit' = Some(exit_status(rows))
  /\ UNCHANGED << args, now, dat, json, garden, backups, users, order, i, fixed,
                  errors, summary, rows, faults, iter, report, accessed, world0, io >>

Next ==
  \/ Start
  \/ SkipUnsafe
  \/ Iterate
  \/ Summary
  \/ AuditUser
  \/ Finish

Spec == Init /\ [][Next]_vars

\* ================================================================ claims
\* C1: with --dry-run, whatever path a user's iteration takes (normal,
\* fallback, reinit) and whatever failure led there, every primary file,
\* mirror document, table row and backup file is as it was when the run began.
C1_DryRunMutatesNothing ==
  args.dry_run => Stores(World) = world0

\* A dry run that finished after alice's fallback reported a dead-marking and
\* bob's normal path ran.
C1_Witness ==
  /\ args.dry_run
  /\ pc = "done"
  /\ report[alice] = << "marked dead via JSON/DB" >>
  /\ report[bob] = << "OK" >>

\* C2: no failure while handling one user aborts the batch: the run never
\* ends by an exception, and a finished run has handled every safe user of
\* the list exactly once and logged the summary.
C2_BatchNeverAborts ==
  /\ pc # "aborted"
  /\ pc = "done" /\ users # <<>> =>
       /\ summary
       /\ \A u \in Range(order) : is_safe_username(u) => Len(report[u]) = 1

\* The user's primary file as find_user_dat_path selects it now.
Primary(u) == { FileAt(World, u, p) : p \in find_user_dat_path(World, u) }
LatestRow(u) ==
  IF LatestIndex(garden.rows, u) = 0 THEN None
  ELSE Some(garden.rows[LatestIndex(garden.rows, u)])

\* C3: after a normal reconciliation that returned with dry-run off, from
\* whatever the three stores held before, the primary file holds the loaded
\* plant, and the mirror and the user's latest table row carry its dead value,
\* the mirror also its last-watered stamp.
C3_NormalPathConverges ==
  iter.branch = "normal" /\ ~args.dry_run =>
    LET u == iter.user
        pl == Val(iter.plant)
    IN  /\ \A f \in Primary(u) : f.kind = "plant" /\ f.plant = pl
        /\ json[u].kind = "dict"
        /\ json[u].data.is_dead = Some(pl.dead)
        /\ json[u].data.last_watered = Some(pl.watered_timestamp)
        /\ ~IsNone(LatestRow(u))
        /\ Val(LatestRow(u)).is_dead = pl.dead

\* A normal reconciliation of alice that began with the mirror saying dead
\* and the latest row saying dead while the plant loaded alive.
C3_Witness ==
  /\ iter.branch = "normal"
  /\ ~args.dry_run
  /\ iter.user = alice
  /\ Val(iter.plant).dead = 0
  /\ iter.pre.json[alice] = JsonFile(Doc(1, Some(LwOld)))
  /\ iter.pre.garden.rows = << Row(bob, 0), Row(alice, 0), Row(alice, 1) >>

\* The failure kinds of the specification as exception classes: NotFound (no
\* primary file), Corrupt (the file cannot be read back), Unavailable (the
\* botany module or a class it needs cannot be imported), else Unclassified.
KindOf(e) ==
  CASE e = "FileNotFoundError" -> "NotFound"
    [] e \in { "EOFError", "ValueError" } -> "Corrupt"
    [] e \in { "ImportError", "ModuleNotFoundError" } -> "Unavailable"
    [] OTHER -> "Unclassified"

\* C4: when the normal attempt fails NotFound, Corrupt or Unavailable the
\* iteration enters recovery (reinit_corrupt under --reinit-corrupt, else
\* fallback_mark_dead); when it fails any other way errors grows by one,
\* fixed does not, no recovery call is made and the stores stay as the
\* failing attempt left them.
C4_FailureRouting ==
  ~IsNone(iter.exc) =>
    IF KindOf(Val(iter.exc)) # "Unclassified"
    THEN /\ iter.branch = (IF args.reinit_corrupt THEN "reinit" ELSE "fallback")
         /\ iter.rops # <<>>
         /\ iter.rops[1] = (IF args.reinit_corrupt THEN "find_user_dat_path"
                            ELSE "read_user_json")
         /\ IsNone(iter.escapes) => errors = iter.errors0
    ELSE /\ iter.branch = "error"
         /\ errors = iter.errors0 + 1
         /\ fixed = iter.fixed0
         /\ iter.rops = <<>>
         /\ Stores(World) = iter.mid
         /\ report[iter.user] = << "ERROR" >>

\* An unclassified failure after save_plant had already written (so the
\* stores differ from before the iteration), counted as an error.
C4_Witness ==
  /\ iter.branch = "error"
  /\ iter.exc = Some("PermissionError")
  /\ iter.ops = << "find_user_dat_path", "load_plant", "save_plant" >>
  /\ iter.mid # iter.pre
  /\ errors = 1

Index(s, x) ==
  IF x \in Range(s) THEN CHOOSE k \in 1..Len(s) : s[k] = x /\ \A m \in 1..(k - 1) : s[m] # x
  ELSE 0
StoreWrites == { "save_plant", "data_write_json", "update_garden_db" }

\* C5: in the reinit path with dry-run off, if a primary file exists at the
\* path about to be overwritten, then before any store is written a backup
\* <path>.corrupt-<now> holding exactly that file exists; and when reinit
\* returns "reinitialized" the primary file, the mirror and the latest table
\* row are those of a fresh plant that is not dead, and the user counts as fixed.
C5_ReinitBacksUpThenRenews ==
  iter.branch = "reinit" /\ ~args.dry_run =>
    LET u == iter.user
        wrote == Range(iter.rops) \cap StoreWrites # {}
    IN  /\ \A p \in Names :
             iter.mid.dat[u][p].kind # "none" /\ dat[u][p] # iter.mid.dat[u][p] =>
               /\ [user |-> u, prefix |-> p, ts |-> now, file |-> iter.mid.dat[u][p]]
                    \in backups
               /\ Index(iter.rops, "backup_file") > 0
               /\ \A w \in StoreWrites :
                    w \in Range(iter.rops) =>
                      Index(iter.rops, "backup_file") < Index(iter.rops, w)
        /\ wrote /\ Candidates(iter.mid, u) # {} => Index(iter.rops, "backup_file") = 2
        /\ iter.action = Some("reinitialized") =>
             /\ \A f \in Primary(u) : f.kind = "plant" /\ f.plant = Plant
             /\ Plant.dead = 0
             /\ json[u] = JsonFile(MirrorOf(Plant))
             /\ LatestRow(u) = Some(Row(u, 0))
             /\ report[u] = << "reinitialized" >>
             /\ fixed = iter.fixed0 + 1

\* alice's corrupt file was backed up and replaced by a fresh plant, over a
\* mirror and a latest row that said dead.
C5_Witness ==
  /\ iter.branch = "reinit"
  /\ ~args.dry_run
  /\ iter.user = alice
  /\ iter.action = Some("reinitialized")
  /\ iter.pre.dat[alice][alice].kind = "corrupt"
  /\ iter.pre.json[alice] = JsonFile(Doc(1, Some(LwOld)))
  /\ iter.rops = << "find_user_dat_path", "backup_file", "save_plant",
                    "data_write_json", "update_garden_db" >>
  /\ Cardinality(backups) = 1

\* The mirror as fallback_mark_dead found it calls for a dead-marking: it is
\* a document whose last_watered is positive and more than dead_after_hours
\* hours before now, and whose is_dead is not 1.
CallsForMarking(m) ==
  /\ m.kind = "dict"
  /\ m.data # EmptyDict
  /\ ~IsNone(m.data.last_watered)
  /\ Val(m.data.last_watered) > 0
  /\ now - Val(m.data.last_watered) > args.dead_after_hours * SecondsPerHour
  /\ m.data.is_dead # Some(1)
MarkedDead(m) == JsonFile([m.data EXCEPT !.is_dead = Some(1)])
UnchangedMessages ==
  { "no JSON; skipped", "JSON missing last_watered; skipped",
    "already dead in JSON", "still within threshold" }

\* C6 as stated: in the fallback path with dry-run off, a mirror that calls
\* for it gets is_dead = 1, as do all the user's table rows, and the user is
\* reported repaired; otherwise mirror and table stay and nothing is reported.
C6_AsStated ==
  iter.branch = "fallback" /\ ~args.dry_run =>
    LET u == iter.user
    IN  IF CallsForMarking(iter.mid.json[u])
        THEN /\ json[u] = MarkedDead(iter.mid.json[u])
             /\ \A k \in 1..Len(garden.rows) :
                  garden.rows[k].owner = u => garden.rows[k].is_dead = 1
             /\ iter.action = Some("marked dead via JSON/DB")
             /\ fixed = iter.fixed0 + 1
        ELSE /\ json[u] = iter.mid.json[u]
             /\ garden = iter.mid.garden
             /\ fixed = iter.fixed0

\* C6 amended: the mirror gets is_dead = 1 (its other fields kept) and the
\* user is reported repaired provided the mirror write does not raise; the
\* user's table rows get is_dead = 1 exactly when the table update ran to
\* its end (a missing table file or a failed update is swallowed and leaves
\* the rows); if the mirror write raises, mirror and table are as before and
\* nothing is counted. A mirror that does not call for marking leaves both
\* stores and the count as they were.
C6_FallbackMarksDead ==
  iter.branch = "fallback" /\ ~args.dry_run =>
    LET u == iter.user
        updated == "update_garden_db_is_dead" \in Range(iter.rops)
    IN  IF CallsForMarking(iter.mid.json[u])
        THEN IF IsNone(iter.escapes)
             THEN /\ json[u] = MarkedDead(iter.mid.json[u])
                  /\ iter.action = Some("marked dead via JSON/DB")
                  /\ fixed = iter.fixed0 + 1
                  /\ garden.rows = (IF updated THEN UpdateIsDead(iter.mid.garden.rows, u, 1)
                                    ELSE iter.mid.garden.rows)
                  /\ garden.exists = iter.mid.garden.exists
                  /\ ~garden.exists => ~updated
             ELSE /\ json[u] = iter.mid.json[u]
                  /\ garden = iter.mid.garden
                  /\ fixed = iter.fixed0
        ELSE /\ json[u] = iter.mid.json[u]
             /\ garden = iter.mid.garden
             /\ fixed = iter.fixed0
             /\ IsNone(iter.escapes)
             /\ Val(iter.action) \in UnchangedMessages

\* alice's stale live mirror was marked dead and both her rows with it.
C6_Witness ==
  /\ iter.branch = "fallback"
  /\ ~args.dry_run
  /\ iter.user = alice
  /\ iter.pre.json[alice] = JsonFile(Doc(0, Some(LwOld)))
  /\ iter.pre.garden.rows = << Row(bob, 0), Row(alice, 1), Row(alice, 0) >>
  /\ json[alice] = JsonFile(Doc(1, Some(LwOld)))
  /\ garden.rows = << Row(bob, 0), Row(alice, 1), Row(alice, 1) >>
  /\ fixed = 1

\* C7: no step of the audit changes a primary file, a mirror document, a
\* table row or a backup, whether the live load of the audited user
\* succeeds or fails.
C7_AuditMutatesNothing ==
  [][ pc = "audit" =>
        /\ dat' = dat
        /\ json' = json
        /\ garden' = garden
        /\ backups' = backups ]_vars

\* An audit that is over, with a user whose live load succeeded and a user
\* whose live load failed.
C7_Witness ==
  /\ pc = "done"
  /\ \E k \in 1..Len(rows) : rows[k].plant_ok
  /\ \E k \in 1..Len(rows) : ~rows[k].plant_ok /\ rows[k].plant_error # None

\* What the page shows for the user, read off the stores: the mirror when it
\* is a non-empty document, else the user's latest table row, else nothing.
PageSources(u) ==
  IF json[u].kind = "dict" /\ json[u].data # EmptyDict THEN { "json" }
  ELSE IF garden.exists /\ ~IsNone(LatestRow(u)) THEN { "db", "none" }
  ELSE { "none" }
Loadable(u) == \E f \in Primary(u) : f.kind = "plant"

\* C8: a row of the audit has mismatch true exactly when the page's alive
\* flag and the live dead flag are both determinate and alive differs from
\* (dead = 0); a user whose live load failed, or for whom neither a mirror
\* nor a table row exists, is never flagged.
C8_MismatchRule ==
  \A k \in 1..Len(rows) :
    LET r == rows[k]
        u == r.user
    IN  /\ u = order[k]
        /\ (r.mismatch_alive = Some(TRUE)) <=>
             /\ ~IsNone(r.page_alive)
             /\ ~IsNone(r.plant_dead)
             /\ Val(r.page_alive) # (Val(r.plant_dead) = 0)
        /\ r.mismatch_alive = None <=> (IsNone(r.page_alive) \/ IsNone(r.plant_dead))
        /\ r.page_source \in PageSources(u)
        /\ r.page_source = "none" <=> IsNone(r.page_alive)
        /\ r.plant_ok <=> ~IsNone(r.plant_dead)
        /\ ~Loadable(u) => ~r.plant_ok
        /\ ~r.plant_ok \/ r.page_source = "none" => r.mismatch_alive # Some(TRUE)

\* alice's mirror says alive and her plant loads dead: flagged. bob's mirror
\* says alive and his file does not load: not flagged.
C8_Witness ==
  /\ pc = "done"
  /\ \E k \in 1..Len(rows) :
       /\ rows[k].page_alive = Some(TRUE)
       /\ rows[k].plant_dead = Some(1)
       /\ rows[k].mismatch_alive = Some(TRUE)
  /\ \E k \in 1..Len(rows) :
       /\ rows[k].page_alive = Some(TRUE)
       /\ ~rows[k].plant_ok
       /\ rows[k].mismatch_alive = None

\* C9: a run that reaches its end exits non-zero exactly when --audit was
\* given and some audited user has mismatch true; the outcomes of the
\* reconcile loop, errors included, leave the status at 0.
C9_ExitStatus ==
  pc = "done" =>
    /\ exit \in { Some(0), Some(2) }
    /\ exit # Some(0) <=>
         (args.audit /\ \E k \in 1..Len(rows) : rows[k].mismatch_alive = Some(TRUE))
    /\ ~args.audit => rows = <<>>

\* A run that counted an error, audited its users, flagged none and exited 0.
C9_Witness ==
  /\ pc = "done"
  /\ errors > 0
  /\ args.audit
  /\ Len(rows) > 0
  /\ \E k \in 1..Len(rows) : rows[k].mismatch_alive = None
  /\ exit = Some(0)

\* C10: no store is read, no plant loaded and nothing written for a name
\* outside the class [A-Za-z0-9._-]+, whether the name was discovered or
\* given with --user.
C10_UnsafeNamesUntouched ==
  \A u \in accessed : MatchesSafeClass(u)

\* A mirror write or a table update failed in the latest iteration: in the
\* normal path a call after save_plant raised, in the fallback
\* write_user_json raised, in the reinit the sequence stopped after save_plant.
SecondaryWriteFailed ==
  \/ ~IsNone(iter.exc) /\ "save_plant" \in Range(iter.ops)
  \/ iter.branch = "fallback" /\ ~IsNone(iter.escapes)
  \/ /\ iter.branch = "reinit"
     /\ "save_plant" \in Range(iter.rops)
     /\ "update_garden_db" \notin Range(iter.rops)

\* C11: a failed mirror write or table update never aborts the user's
\* reconciliation: the iteration ends with an outcome of its path (normal,
\* fallback or reinit), no exception leaves the loop and none is counted as
\* an error.
C11_SecondaryFailuresSwallowed ==
  SecondaryWriteFailed =>
    /\ IsNone(iter.escapes)
    /\ iter.branch # "error"
    /\ Len(report[iter.user]) = 1

\* ------------------------------------------------------- a second run
\* The program is run again after a run that returned: main starts over on
\* the stores the first run left, an hour later. In between a live plant may
\* have become due to die at its next load (Overdue). report keeps the
\* lines of the first run; world0 is the stores as the second run finds them.
\* Both runs are without --dry-run, --audit and --reinit-corrupt.
RunGap == SecondsPerHour
Overdue(d) ==
  [u \in Names |-> [p \in Names |->
     IF d[u][p].kind = "plant" /\ d[u][p].plant.dead = 0 /\ u = alice
     THEN [d[u][p] EXCEPT !.due = "die"] ELSE d[u][p]]]
Init12 == Init /\ ~args.dry_run /\ ~args.audit /\ ~args.reinit_corrupt
Rerun ==
  /\ pc = "done"
  /\ now = Now
  /\ now' = now + RunGap
  /\ dat' \in { dat, Overdue(dat) }
  /\ pc' = "start"
  /\ users' = <<>>
  /\ order' = <<>>
  /\ i' = 1
  /\ fixed' = 0
  /\ errors' = 0
  /\ summary' = FALSE
  /\ exit' = None
  /\ accessed' = {}
  /\ world0' = [ Stores(World) EXCEPT !.dat = dat' ]
  /\ iter' = [ NoIteration EXCEPT !.pre = world0', !.mid = world0' ]
  /\ UNCHANGED << args, json, garden, backups, rows, faults, report, io >>
Next12 ==
  \/ Start
  \/ SkipUnsafe
  \/ Iterate
  \/ Summary
  \/ Rerun
Spec12 == Init12 /\ [][Next12]_vars

\* What a primary file holds, its modification time aside.
Content(f) == IF f.kind = "plant" THEN [f EXCEPT !.mtime = 0] ELSE f
Contents(d, u) == [p \in Names |-> Content(d[u][p])]
RowsOf(g, u) == SelectSeq(g.rows, LAMBDA r : r.owner = u)
SecondRun == now > Now
Stable(f) == f.kind = "plant" /\ f.due = "none"

\* C12: a user whose primary file loads with no further transition and
\* whom the first run reconciled on the normal path has, after the normal
\* reconciliation of the second run (dry-run off in both), the primary file
\* content, the mirror and the table rows the first run left, and the second
\* run reports the user unchanged and does not count the user as fixed.
C12_SecondRunIdempotent ==
  LET u == iter.user
  IN  /\ SecondRun
      /\ iter.branch = "normal"
      /\ Len(report[u]) = 2
      /\ report[u][1] = "OK"
      /\ \A p \in find_user_dat_path(world0, u) : Stable(FileAt(world0, u, p))
      => /\ Contents(dat, u) = Contents(world0.dat, u)
         /\ json[u] = world0.json[u]
         /\ RowsOf(garden, u) = RowsOf(world0.garden, u)
         /\ report[u][2] = "OK"
         /\ fixed = iter.fixed0

\* alice's plant was due to die at the first load: the first run wrote it
\* dead over a live mirror, the second run found it stable and left it so.
C12_Witness ==
  /\ SecondRun
  /\ iter.user = alice
  /\ iter.branch = "normal"
  /\ report[alice] = << "OK", "OK" >>
  /\ Stable(world0.dat[alice][alice])
  /\ world0.dat[alice][alice].plant.dead = 1
  /\ world0.dat[alice][alice].mtime = Now
  /\ dat[alice][alice].mtime = Now + RunGap
  /\ json[alice] = JsonFile(MirrorOf(world0.dat[alice][alice].plant))

\* ------------------------------ write_user_json against read_user_json
\* write_user_json(args, alice, WriteData) taken one system call at a time
\* (lines 64-72), with a read_user_json(alice) of another process taken
\* likewise (lines 55-61). io.wpc and io.rpc are the next call of each.
WriteData == Doc(1, Some(LwOld))

\* Mutant: the temporary path is the target itself.
TmpPathIsTarget == "target"

\* tmp = jp + ".tmp" (line 68)
TmpPath == "tmp"

Init13 == Init /\ args.user = alice /\ ~args.audit /\ ~args.reinit_corrupt
Io(next) ==
  /\ io' = next
  /\ json' = [json EXCEPT ![alice] =
                IF next.dir.target = NoInode THEN NoJson
                ELSE next.inode[next.dir.target].file]
  /\ UNCHANGED << args, now, dat, garden, backups, pc, users, order, i, fixed,
                  errors, summary, rows, exit, faults, iter, report, accessed,
                  world0 >>

\* lines 64-65
WDryRun ==
  /\ io.wpc = "start"
  /\ args.dry_run
  /\ Io([io EXCEPT !.wpc = "returned"])
\* line 67: os.makedirs
WMakedirs ==
  /\ io.wpc = "start"
  /\ ~args.dry_run
  /\ Io([io EXCEPT !.wpc = "open"])
\* line 69: open(tmp, "w") creates the file or truncates it
WOpen ==
  /\ io.wpc = "open"
  /\ LET k == IF io.dir[TmpPath] = NoInode THEN 2 ELSE io.dir[TmpPath]
     IN  Io([io EXCEPT !.wpc = "dump", !.wfd = k, !.dir[TmpPath] = k,
                       !.inode[k] = [file |-> JsonFile(WriteData), n |-> 0]])
\* line 70: one write of json.dump
WDump ==
  /\ io.wpc = "dump"
  /\ io.inode[io.wfd].n < Chunks
  /\ Io([io EXCEPT !.inode[io.wfd].n = @ + 1])
\* the with statement closes the file after the last write
WClose ==
  /\ io.wpc = "dump"
  /\ io.inode[io.wfd].n = Chunks
  /\ Io([io EXCEPT !.wpc = "replace", !.wfd = NoInode])
\* line 71: os.replace(tmp, jp) renames in one step
WReplace ==
  /\ io.wpc = "replace"
  /\ Io([io EXCEPT !.wpc = "returned",
                   !.dir = [[io.dir EXCEPT ![TmpPath] = NoInode]
                              EXCEPT !.target = io.dir[TmpPath]]])
\* makedirs, open, a write, close or replace raises OSError; the with
\* statement closes the file
WRaise ==
  /\ io.wpc \in { "open", "dump", "replace" } \/ (io.wpc = "start" /\ ~args.dry_run)
  /\ Io([io EXCEPT !.wpc = "raised", !.wfd = NoInode])

\* line 55: os.path.isfile and os.access
RIsFile ==
  /\ io.rpc = "start"
  /\ IF io.dir.target = NoInode
     THEN Io([io EXCEPT !.rpc = "returned", !.seen = Some(None)])
     ELSE Io([io EXCEPT !.rpc = "open"])
\* line 58: open(jp, "r"); FileNotFoundError is caught at line 60
ROpen ==
  /\ io.rpc = "open"
  /\ IF io.dir.target = NoInode
     THEN Io([io EXCEPT !.rpc = "returned", !.seen = Some(None)])
     ELSE Io([io EXCEPT !.rpc = "load", !.rfd = io.dir.target])
\* line 59: json.load of what the open file holds now; a document that
\* is not whole raises JSONDecodeError, caught at line 60
RLoad ==
  /\ io.rpc = "load"
  /\ LET f == io.inode[io.rfd]
         r == IF f.n < Chunks \/ f.file.kind # "dict" THEN None
              ELSE Some(f.file.data)
     IN  Io([io EXCEPT !.rpc = "returned", !.rfd = NoInode, !.seen = Some(r)])

Next13 ==
  \/ WDryRun
  \/ WMakedirs
  \/ WOpen
  \/ WDump
  \/ WClose
  \/ WReplace
  \/ WRaise
  \/ RIsFile
  \/ ROpen
  \/ RLoad
Spec13 == Init13 /\ [][Next13]_vars

\* What read_user_json returns on the old target, and on the new one.
OldDocument ==
  IF world0.json[alice].kind = "dict" THEN Some(world0.json[alice].data) ELSE None
NewDocument == Some(WriteData)

\* C13: whatever the interleaving, the target never holds a document that
\* is not whole, a reader gets the whole old document or the whole new one,
\* and a write that raised before or in the replace leaves the target as it was.
C13_MirrorWriteAtomic ==
  /\ io.dir.target # NoInode => io.inode[io.dir.target].n = Chunks
  /\ io.rfd # NoInode => io.inode[io.rfd].n = Chunks
  /\ ~IsNone(io.seen) => Val(io.seen) \in { OldDocument, NewDocument }
  /\ io.wpc # "returned" => json[alice] = world0.json[alice]
  /\ io.wpc = "returned" /\ ~args.dry_run => json[alice] = JsonFile(WriteData)

\* A reader that opened the old document before the replace and read it,
\* whole, after the writer had replaced it by the new one.
C13_Witness ==
  /\ io.wpc = "returned"
  /\ json[alice] = JsonFile(WriteData)
  /\ world0.json[alice] = JsonFile(Doc(0, Some(LwOld)))
  /\ io.seen = Some(Some(Doc(0, Some(LwOld))))

\* The page view a row of the audit reports, against the stores: FromMirror
\* when it was taken from the document d, FromTable from the owner's latest
\* row, Undetermined from neither.
FromMirror(r, d) ==
  LET is_dead == Val(get(d, "is_dead", Some(0)))
      lw == get(d, "last_watered", None)
  IN  /\ r.page_source = "json"
      /\ r.page_is_dead = Some(is_dead)
      /\ r.page_alive = Some(is_dead = 0)
      /\ r.page_last_watered = lw
      /\ r.page_thirsty = Some(~IsNone(lw) /\
           now - Val(lw) >= args.water_interval_hours * SecondsPerHour)
FromTable(r, u) ==
  /\ r.page_source = "db"
  /\ garden.exists
  /\ ~IsNone(LatestRow(u))
  /\ r.page_is_dead = Some(Val(LatestRow(u)).is_dead)
  /\ r.page_alive = Some(Val(LatestRow(u)).is_dead = 0)
  /\ r.page_thirsty = None
  /\ r.page_last_watered = None
Undetermined(r, u) ==
  /\ r.page_source = "none"
  /\ r.page_is_dead = None
  /\ r.page_alive = None
  /\ r.page_thirsty = None
  /\ r.page_last_watered = None
\* The table has a row of u and no query failed in this run.
RowReadable(u) == garden.exists /\ ~IsNone(LatestRow(u)) /\ faults = 0

OnDisk(u) ==
  { FileAt(iter.pre, u, p).plant : p \in find_user_dat_path(iter.pre, u) }

\* C15: in the normal path the user is reported updated and counted as fixed
\* exactly when the loaded plant differs in dead, last-watered or ticks from
\* what the primary file held, and reported unchanged otherwise.
C15_LoadChangesReported ==
  iter.branch = "normal" =>
    LET u == iter.user
        differs == \E pl \in OnDisk(u) : Snapshot(pl) # Snapshot(Val(iter.plant))
    IN  IF differs
        THEN /\ iter.changed
             /\ report[u] = << IF args.dry_run THEN "DRY-RUN" ELSE "UPDATED" >>
             /\ fixed = iter.fixed0 + 1
        ELSE /\ ~iter.changed
             /\ report[u] = << "OK" >>
             /\ fixed = iter.fixed0

\* C16: when reinit_corrupt fails after it was entered (Plant, save_plant,
\* data_write_json or update_garden_db raises), the user is an error: errors
\* grows by one, fixed does not, and the failure is reported.
C16_ReinitFailureIsError ==
  iter.branch = "reinit" /\ iter.action = Some("reinit failed") =>
    /\ errors = iter.errors0 + 1
    /\ fixed = iter.fixed0
    /\ report[iter.user] = << "reinit failed" >>

\* C17: recovery is entered only when locating or loading the primary file
\* failed: an iteration whose load_plant returned makes no call of
\* fallback_mark_dead or reinit_corrupt, whatever save_plant,
\* data_write_json or update_garden_db raise afterwards.
C17_RecoveryOnlyOnLoadFailure ==
  iter.loaded =>
    /\ iter.branch \in { "normal", "error" }
    /\ iter.rops = <<>>
    /\ backups = iter.pre.backups

\* The mirror as the fallback found it has no positive last_watered, or is
\* missing, unreadable or empty.
NothingToJudge(m) ==
  \/ m.kind # "dict"
  \/ m.data = EmptyDict
  \/ IsNone(m.data.last_watered)
  \/ Val(m.data.last_watered) <= 0

\* C18: an execution of fallback_mark_dead creates, changes and removes no
\* primary file and no backup; the user's mirror is as it was or as it was
\* with is_dead = 1, the table rows are as they were or as they were with
\* the user's rows at is_dead = 1; with no mirror, or no positive
\* last_watered in it, the stores are as the fallback found them and the
\* user is reported skipped and not counted.
C18_FallbackOnlyFlipsDead ==
  iter.branch = "fallback" =>
    LET u == iter.user
        m == iter.mid.json[u]
    IN  /\ dat = iter.mid.dat
        /\ backups = iter.mid.backups
        /\ \A v \in Names \ {u} : json[v] = iter.mid.json[v]
        /\ json[u] = m \/ (m.kind = "dict" /\ m.data # EmptyDict /\ json[u] = MarkedDead(m))
        /\ garden.exists = iter.mid.garden.exists
        /\ garden.rows \in { iter.mid.garden.rows,
                             UpdateIsDead(iter.mid.garden.rows, u, 1) }
        /\ NothingToJudge(m) =>
             /\ Stores(World) = iter.mid
             /\ IsNone(iter.escapes)
             /\ Val(iter.action) \in { "no JSON; skipped",
                                       "JSON missing last_watered; skipped" }
             /\ fixed = iter.fixed0

\* bob's fallback marked his mirror dead and kept its last_watered and
\* score, with his primary file still the corrupt one.
C18_Witness ==
  /\ iter.branch = "fallback"
  /\ iter.user = bob
  /\ iter.mid.json[bob] = JsonFile(Doc(0, Some(LwOld)))
  /\ json[bob].data.is_dead = Some(1)
  /\ json[bob].data.last_watered = Some(LwOld)
  /\ json[bob].data.score = Some(5)
  /\ dat[bob][bob].kind = "corrupt"

\* The users whose iteration has begun.
Handled ==
  { order[k] : k \in 1..(i - 1) } \cup (IF pc = "aborted" THEN { order[i] } ELSE {})
SameStores(S, T, v) ==
  /\ S.dat[v] = T.dat[v]
  /\ S.json[v] = T.json[v]
  /\ RowsOf(S.garden, v) = RowsOf(T.garden, v)
  /\ { b \in S.backups : b.user = v } = { b \in T.backups : b.user = v }

\* C19: an iteration for user u leaves the primary files, the mirror and
\* the table rows of every other user as they were before it; so wherever
\* the run stands, or stops, the users it has not reached have their stores
\* as they were when the run began.
C19_OtherUsersUntouched ==
  /\ \A v \in Names \ { iter.user } : SameStores(Stores(World), iter.pre, v)
  /\ \A v \in Names \ Handled : SameStores(Stores(World), world0, v)

\* alice's fallback has marked her mirror and her rows dead, and bob, next
\* in the list, has a row in the same table.
C19_Witness ==
  /\ pc = "loop"
  /\ order = << alice, bob >>
  /\ i = 2
  /\ iter.user = alice
  /\ iter.action = Some("marked dead via JSON/DB")
  /\ json[alice] # world0.json[alice]
  /\ RowsOf(garden, alice) # RowsOf(world0.garden, alice)
  /\ RowsOf(garden, bob) = << Row(bob, 0) >>

\* ------------------------------------- directories with several candidates
\* A run for alice whose .botany directory holds any combination of
\* a_plant.dat (the canonical name), b_plant.dat and "e _plant.dat", each
\* sound or corrupt, each older or newer; the plant of each file carries its
\* own last-watered stamp, which tells the files apart once loaded.
MTimes == { FileTime, FileTime + 1 }
Stamp(p) == LwRecent - (IF p = alice THEN 1 ELSE IF p = bob THEN 2 ELSE 3)
FilesAt(p) ==
  { NoFile }
  \cup { PlantFile(MkPlant(0, Stamp(p), 0), "none", t) : t \in MTimes }
  \cup { CorruptFile("EOFError", t) : t \in MTimes }
Dirs ==
  { d \in [Names -> UNION { FilesAt(p) : p \in Names }] :
      \A p \in Names : d[p] \in FilesAt(p) }
Init20 ==
  /\ args \in { a \in ArgSets : a.user \in { alice, eve } }
  /\ now = Now
  /\ \E a \in (IF Reaches(alice) THEN Dirs ELSE { NoFiles }) :
       dat = [u \in Names |-> IF u = alice THEN a
                              ELSE IF u = bob THEN First(BobDat) ELSE First(EveDat)]
  /\ json = [u \in Names |-> IF u = alice THEN JsonFile(Doc(0, Some(LwOld)))
                             ELSE IF u = bob THEN First(BobJson) ELSE First(EveJson)]
  /\ garden = [exists |-> TRUE, rows |-> << Row(bob, 0), Row(alice, 0) >>]
  /\ backups = {}
  /\ pc = "start"
  /\ users = <<>>
  /\ order = <<>>
  /\ i = 1
  /\ fixed = 0
  /\ errors = 0
  /\ summary = FALSE
  /\ rows = <<>>
  /\ exit = None
  /\ faults = 0
  /\ iter = NoIteration
  /\ report = [u \in Names |-> <<>>]
  /\ accessed = {}
  /\ world0 = Stores(World)
  /\ io = IoInit(json[alice])
Spec20 == Init20 /\ [][Next]_vars

\* The candidates of newest modification time.
Newest(W, u) ==
  { p \in Candidates(W, u) :
      \A q \in Candidates(W, u) : W.dat[u][q].mtime <= W.dat[u][p].mtime }
\* The selection the claim describes, as a set of admissible results.
Selected(W, u) ==
  IF Candidates(W, u) = {} THEN { None }
  ELSE IF u \in Candidates(W, u) THEN { Some(u) }
  ELSE { Some(p) : p \in Newest(W, u) }
Others(S, T, u, p) == \A q \in Names \ {p} : S.dat[u][q] = T.dat[u][q]

\* C20: find_user_dat_path returns None exactly when the directory has no
\* *_plant.dat; the canonical file whenever it is there, whatever the
\* modification times; else a candidate of newest modification time. The
\* normal path loads, and saves to, a file so selected; the reinit backs up
\* and overwrites one; the audit loads one.
C20_SelectionOfPrimaryFile ==
  /\ \A u \in Names :
       /\ find_user_dat_path(World, u) = Selected(World, u)
       /\ (None \in find_user_dat_path(World, u)) <=> (Candidates(World, u) = {})
       /\ u \in Candidates(World, u) => find_user_dat_path(World, u) = { Some(u) }
       /\ find_user_dat_path(World, u) # {}
  /\ iter.loaded =>
       \E s \in Selected(iter.pre, iter.user) :
         /\ ~IsNone(s)
         /\ iter.pre.dat[iter.user][Val(s)].kind = "plant"
         /\ iter.branch = "normal" =>
              /\ Val(iter.plant) = load_plant(iter.pre.dat[iter.user][Val(s)])
              /\ Others(Stores(World), iter.pre, iter.user, Val(s))
              /\ ~args.dry_run =>
                   dat[iter.user][Val(s)] = PlantFile(Val(iter.plant), "none", now)
  /\ iter.branch = "normal" => iter.loaded
  /\ iter.exc = Some("FileNotFoundError") /\ ~iter.loaded /\ Len(iter.ops) = 1 =>
       Candidates(iter.pre, iter.user) = {}
  /\ iter.action = Some("reinitialized") =>
       \E s \in Selected(iter.mid, iter.user) :
         LET p == savefile(iter.user, s)
         IN  /\ dat[iter.user][p] = PlantFile(Plant, "none", now)
             /\ Others(Stores(World), iter.mid, iter.user, p)
             /\ ~IsNone(s) =>
                  [user |-> iter.user, prefix |-> p, ts |-> now,
                   file |-> iter.mid.dat[iter.user][p]] \in backups
             /\ IsNone(s) => backups = iter.mid.backups
  /\ \A k \in 1..Len(rows) :
       LET r == rows[k]
       IN  /\ r.plant_ok =>
                \E s \in Selected(World, r.user) :
                  /\ ~IsNone(s)
                  /\ dat[r.user][Val(s)].kind = "plant"
                  /\ r.plant_last_watered =
                       Some(load_plant(dat[r.user][Val(s)]).watered_timestamp)
           /\ Candidates(World, r.user) = {} =>
                r.plant_error = Some("FileNotFoundError")

\* alice's canonical file is older than b_plant.dat beside it, and the
\* normal path loaded the canonical one and saved to it; the audit then
\* loaded it too.
C20_Witness ==
  /\ pc = "done"
  /\ iter.user = alice
  /\ iter.branch = "normal"
  /\ ~args.dry_run
  /\ iter.pre.dat[alice][alice].kind = "plant"
  /\ iter.pre.dat[alice][alice].mtime = FileTime
  /\ iter.pre.dat[alice][bob].kind = "plant"
  /\ iter.pre.dat[alice][bob].mtime = FileTime + 1
  /\ Val(iter.plant).watered_timestamp = Stamp(alice)
  /\ dat[alice][alice].mtime = now
  /\ dat[alice][bob] = iter.pre.dat[alice][bob]
  /\ Len(rows) = 1
  /\ rows[1].plant_last_watered = Some(Stamp(alice))
====
